---- MODULE Spec2Model ----
(***************************************************************************)
(* Model of the elolist rating engine (src/main.ts): the relation and item *)
(* parsers, the serializer, the strength estimator estimateElo, the rating *)
(* updater updateRating and the two comparison click handlers of the code  *)
(* block processor.                                                        *)
(*                                                                         *)
(* Numbers.  A JavaScript number is modelled as a fixed-point integer      *)
(* counting thousandths of a rating point (Scale), so 664.5 is 664500.     *)
(* The one non-number the code produces, NaN (parseFloat of a token with   *)
(* no numeric prefix), is the sentinel NaN; Math.min, Math.max and <= are  *)
(* modelled with JavaScript's NaN rules.                                   *)
(*                                                                         *)
(* Objects.  An EloItem is a record whose eloRelations field is a          *)
(* REFERENCE into heap (a sequence of arrays), because the click handlers  *)
(* copy items with the shallow spread { ...item }: the copy shares the     *)
(* relations array with the original until the updater assigns a new one.  *)
(***************************************************************************)
EXTENDS Integers, Sequences, FiniteSets, TLC

VARIABLES
    source,      \* the code block's text: a sequence of lines
    items,       \* the processor's `items` array (sequence of EloItem)
    heap,        \* the relation arrays, indexed by reference
    leftIndex,   \* closure: index of the left item at render time
    rightIndex,  \* closure: index of the right item at render time
    leftItem,    \* closure: the left item object captured at render time
    rightItem,   \* closure: the right item object captured at render time
    rendered,    \* TRUE once the processor has run on the current source
    clicks,      \* number of button clicks so far
    last,        \* what the last click read and wrote (history)
    relations,   \* estimator run: the relation sequence handed to estimateElo
    result,      \* estimator run: << what estimateElo returned >>, << >> before
    parsed,      \* the list as the last rendering parsed it (history)
    subject,     \* updater run: the item object being updated in place
    history,     \* updater run: the subject's relations at the start and
                 \* after each update, oldest first
    stage,       \* text run: "text", "parsed", "written" or "reread"
    written,     \* text run: the serialization of the parsed list
    reread       \* text run: the list parsed from the serialization

vars == << source, items, heap, leftIndex, rightIndex, leftItem, rightItem,
           rendered, clicks, last, relations, result, parsed, subject,
           history, stage, written, reread >>

\* The variables of the rendered block, of the estimator runs, of the updater
\* runs and of the text runs.
blockVars == << source, items, leftIndex, rightIndex, leftItem, rightItem,
                rendered, clicks, last, parsed >>

estVars == << relations, result >>

updVars == << subject, history >>

textVars == << stage, written, reread >>

----------------------------------------------------------------------------
(* Numbers *)

\* Fixed-point resolution: one rating point is Scale units.
Scale == 1000

\* The NaN that parseFloat returns for a token without a numeric prefix.
NaN == -1000000000

\* Config (src/main.ts 36-37)
ITEM_INCUBATION_TIME == 4

DEFAULT_ELO == 600

\* The K-factor written inline in updateRating.
KFactor == 32

IsNaN(x) == x = NaN

\* Math.min / Math.max: NaN if either argument is NaN.
MathMin(a, b) == IF IsNaN(a) \/ IsNaN(b) THEN NaN ELSE IF a < b THEN a ELSE b

MathMax(a, b) == IF IsNaN(a) \/ IsNaN(b) THEN NaN ELSE IF a > b THEN a ELSE b

\* a <= b in JavaScript: false when either side is NaN.
LessEq(a, b) == ~IsNaN(a) /\ ~IsNaN(b) /\ a <= b

\* x + y and x - y on numbers: NaN propagates.
Plus(x, y) == IF IsNaN(x) \/ IsNaN(y) THEN NaN ELSE x + y

Abs(x) == IF x < 0 THEN -x ELSE x

----------------------------------------------------------------------------
(* Strength estimator: estimateElo (src/main.ts 95-155), on the item's     *)
(* relation array.                                                         *)

Rel(op, value) == [op |-> op, value |-> value]

\* The bounds loop, lines 100-113, from index i on.  The code reads
\* item.eloRelations[1] (the SECOND relation; rels[2] here, sequences being
\* 1-based) in every case of the switch, whatever i is.
RECURSIVE BoundsLoop(_, _, _)
BoundsLoop(rels, i, b) ==
    IF i > Len(rels) THEN b
    ELSE LET op == rels[i].op
             v  == rels[2].value
             nb == CASE op = "eq" -> [minElo |-> MathMin(v, b.minElo),
                                      maxElo |-> MathMax(v, b.maxElo)]
                     [] op = "lt" -> [minElo |-> MathMin(v, b.minElo),
                                      maxElo |-> b.maxElo]
                     [] op = "gt" -> [minElo |-> b.minElo,
                                      maxElo |-> MathMax(v, b.maxElo)]
                     [] OTHER     -> b
         IN  BoundsLoop(rels, i + 1, nb)

\* Lines 114-115: the window widened by one point on each side.
Widen(b) ==
    [minElo |-> Plus(b.minElo, -Scale), maxElo |-> Plus(b.maxElo, Scale)]

\* Lines 98-115: the search window.
Bounds(rels) ==
    Widen(BoundsLoop(rels, 2, [minElo |-> rels[1].value,
                               maxElo |-> rels[1].value]))

\* Lines 123-142: one relation's residual at candidate testElo, in units.
RelError(rel, testElo) ==
    CASE rel.op = "eq" -> Abs(rel.value - testElo)
      [] rel.op = "lt" -> IF testElo - rel.value + Scale > 0
                          THEN testElo - rel.value + Scale ELSE 0
      [] rel.op = "gt" -> IF rel.value - testElo + Scale > 0
                          THEN rel.value - testElo + Scale ELSE 0
      [] OTHER         -> 0

\* A squared error is far beyond TLC's 32-bit integers (a residual of 700
\* points is 700000 units), so it is kept exactly, in two limbs:
\* hi * Scale^2 + lo with 0 <= lo < Scale^2.
Square(e) ==
    LET a   == e \div Scale
        b   == e % Scale
        low == 2 * a * b * Scale + b * b
    IN  [hi |-> a * a + low \div (Scale * Scale), lo |-> low % (Scale * Scale)]

ErrPlus(x, y) ==
    [hi |-> x.hi + y.hi + (x.lo + y.lo) \div (Scale * Scale),
     lo |-> (x.lo + y.lo) % (Scale * Scale)]

\* x < y on squared errors.
ErrLess(x, y) == x.hi < y.hi \/ (x.hi = y.hi /\ x.lo < y.lo)

\* Lines 121-144: the sum of the squared residuals.
RECURSIVE TotalError(_, _)
TotalError(rels, testElo) ==
    IF rels = << >> THEN [hi |-> 0, lo |-> 0]
    ELSE ErrPlus(Square(RelError(Head(rels), testElo)),
                 TotalError(Tail(rels), testElo))

\* Lines 118-150 over the candidates minElo + k for k in lo..hi: the scan
\* is ascending and replaces its best on strict improvement only, so what it
\* holds after a range is the FIRST candidate of least error in it.  The
\* range is halved instead of walked so that the evaluation stays shallow:
\* the later half wins only with a strictly smaller error.
\* Line 146 between the best of an earlier and of a later range.
Better(first, later) ==
    IF ErrLess(later.bestError, first.bestError) THEN later ELSE first

RECURSIVE BestIn(_, _, _, _)
BestIn(rels, minElo, lo, hi) ==
    IF lo = hi
    THEN [bestError   |-> TotalError(rels, minElo + lo * Scale),
          bestTestElo |-> minElo + lo * Scale]
    ELSE Better(BestIn(rels, minElo, lo, (lo + hi) \div 2),
                BestIn(rels, minElo, (lo + hi) \div 2 + 1, hi))

\* The loop of line 120 runs while testElo <= maxElo, which is never the
\* case with a NaN bound: bestTestElo then keeps its initial 0.
SearchLoop(rels, b) ==
    IF ~LessEq(b.minElo, b.maxElo) THEN 0
    ELSE BestIn(rels, b.minElo, 0,
                (b.maxElo - b.minElo) \div Scale).bestTestElo

estimateElo(rels) ==
    IF Len(rels) > 0
    THEN SearchLoop(rels, Bounds(rels))
    ELSE DEFAULT_ELO * Scale

----------------------------------------------------------------------------
(* Text.  A line of the block is a record: its title, whether it ends in a *)
(* parenthesized group, and the text between the parentheses as the        *)
(* sequence of its comma-separated tokens (<< >> is the empty text).  A    *)
(* token is its leading "<" or ">" (or none), the number its numeric       *)
(* prefix denotes (NaN when it has none) and whether text follows it.      *)

Token(prefix, number, junk) ==
    [prefix |-> prefix, number |-> number, junk |-> junk]

Line(title, tokens) == [title |-> title, parens |-> TRUE, tokens |-> tokens]

TitleLine(title) == [title |-> title, parens |-> FALSE, tokens |-> << >>]

\* A line of white space only.
BlankLine == TitleLine("")

\* String.split(","): the empty text splits into one empty token.
Split(tokens) == IF tokens = << >> THEN << Token("", NaN, FALSE) >> ELSE tokens

\* parseEloRelation (src/main.ts 157-177).  parseFloat reads the numeric
\* prefix and ignores what follows it.
parseEloRelation(s) ==
    LET op    == CASE s.prefix = "<" -> "lt"
                   [] s.prefix = ">" -> "gt"
                   [] OTHER          -> "eq"
        value == s.number
    IN  Rel(IF IsNaN(value) THEN "nop" ELSE op, value)

\* Lines 182-188: the item of a title and its parsed relations.
EstimatedItem(title, rels) ==
    [title |-> title, estimatedElo |-> estimateElo(rels),
     eloRelations |-> rels]

\* Line 185: split(",").map(parseEloRelation).
ParseRelations(tokens) ==
    [i \in 1..Len(tokens) |-> parseEloRelation(tokens[i])]

\* parseEloItem (src/main.ts 179-195), with the relations array by value.
parseEloItem(s) ==
    IF s.parens
    THEN EstimatedItem(s.title, ParseRelations(Split(s.tokens)))
    ELSE [title |-> s.title, estimatedElo |-> DEFAULT_ELO * Scale,
          eloRelations |-> << >>]

\* Array.prototype.sort((a, b) => b.estimatedElo - a.estimatedElo): a stable
\* sort, descending by estimate.
RECURSIVE InsertDesc(_, _)
InsertDesc(sorted, x) ==
    IF sorted = << >> THEN << x >>
    ELSE IF Head(sorted).estimatedElo >= x.estimatedElo
         THEN << Head(sorted) >> \o InsertDesc(Tail(sorted), x)
         ELSE << x >> \o sorted

RECURSIVE SortDesc(_)
SortDesc(seq) ==
    IF seq = << >> THEN << >>
    ELSE InsertDesc(SortDesc(SubSeq(seq, 1, Len(seq) - 1)), seq[Len(seq)])

\* parseEloItems (src/main.ts 197-204): the sorted items, item objects
\* holding a reference to their relations array, and the arrays.
Allocated(parsedItems) ==
    [items |-> SortDesc([i \in 1..Len(parsedItems) |->
                  [title        |-> parsedItems[i].title,
                   estimatedElo |-> parsedItems[i].estimatedElo,
                   eloRelations |-> i]]),
     heap  |-> [i \in 1..Len(parsedItems) |-> parsedItems[i].eloRelations]]

ParseLines(lines) == [i \in 1..Len(lines) |-> parseEloItem(lines[i])]

parseEloItems(s) ==
    Allocated(ParseLines(SelectSeq(s, LAMBDA l : l # BlankLine)))

\* Math.floor(value * 100) / 100.
Floor2(value) == (value \div (Scale \div 100)) * (Scale \div 100)

\* stringifyEloRelations (src/main.ts 206-217), on the relations array.
RelationsToTokens(kept) ==
    [i \in 1..Len(kept) |->
        Token(CASE kept[i].op = "lt" -> "<"
                [] kept[i].op = "gt" -> ">"
                [] OTHER             -> "",
              Floor2(kept[i].value), FALSE)]

stringifyEloRelations(rels) ==
    RelationsToTokens(SelectSeq(rels, LAMBDA rel : rel.op # "nop"))

\* stringifyEloItems (src/main.ts 219-227).
stringifyEloItems(its, h) ==
    [i \in 1..Len(its) |->
        IF Len(h[its[i].eloRelations]) > 0
        THEN Line(its[i].title, stringifyEloRelations(h[its[i].eloRelations]))
        ELSE TitleLine(its[i].title)]

\* An item with its relations array by value.
Deref(item, h) ==
    [title |-> item.title, estimatedElo |-> item.estimatedElo,
     eloRelations |-> h[item.eloRelations]]

DerefAll(its, h) == [i \in 1..Len(its) |-> Deref(its[i], h)]

\* A parsed list with the relations arrays by value.
ByValue(p) == DerefAll(p.items, p.heap)

----------------------------------------------------------------------------
(* Rating updater: updateRating (src/main.ts 42-93).                       *)

\* 1000 / (1 + 10^(k * 25 / 400)) for k = -32 .. 32, rounded: the logistic
\* curve of pA sampled every 25 points of rating difference.
ExpectedTable ==
    << 990, 989, 987, 985, 983, 980, 977, 973, 969, 965, 960, 954, 947, 939,
       930, 920, 909, 896, 882, 867, 849, 830, 808, 785, 760, 733, 703, 673,
       640, 606, 571, 536, 500, 464, 429, 394, 360, 327, 297, 267, 240, 215,
       192, 170, 151, 133, 118, 104, 91, 80, 70, 61, 53, 46, 40, 35, 31, 27,
       23, 20, 17, 15, 13, 11, 10 >>

\* pA(a, b) of line 43-45 in thousandths, from the two estimates: the
\* difference b - a is cut to a multiple of 25 points within +-800.
pA(aElo, bElo) ==
    LET k == (bElo - aElo) \div (25 * Scale)
        c == IF k < -32 THEN -32 ELSE IF k > 32 THEN 32 ELSE k
    IN  ExpectedTable[c + 33]

\* Line 46-47.
isDefinite(rels) == Len(rels) = 1 /\ rels[1].op = "eq"

\* The object `item` with its estimate set and a NEW array holding the one
\* relation Equal(elo) assigned to it (lines 53-54, 64-66, 74-75, 86-88).
Settled(item, elo, h) ==
    [item |-> [item EXCEPT !.estimatedElo = elo, !.eloRelations = Len(h) + 1],
     heap |-> Append(h, << Rel("eq", elo) >>)]

\* item.eloRelations.push(rel), lines 58-61 and 80-83: the array is changed
\* in place, for every object that references it.
Push(item, rel, h) == [h EXCEPT ![item.eloRelations] = Append(@, rel)]

\* Lines 62-67 (and 84-89) once estimateElo(item) has returned est.
Reestimated_NoCollapse(item, est, h) ==
    [item |-> [item EXCEPT !.estimatedElo = est], heap |-> h]

Reestimated(item, est, h) ==
    IF Len(h[item.eloRelations]) > ITEM_INCUBATION_TIME
    THEN Settled(item, est, h)
    ELSE [item |-> [item EXCEPT !.estimatedElo = est], heap |-> h]

\* Lines 58-67 (and 80-89) once the relation is pushed.
Incubated(item, h) ==
    Reestimated(item, estimateElo(h[item.eloRelations]), h)

\* afterWinAgainst (lines 49-69) of updateRating(item): item is the object
\* being mutated, h the arrays; gives the object and the arrays afterwards.
\* 32 * p with p in thousandths is a number of units, Scale being 1000.
afterWinAgainst(item, looserItem, h) ==
    IF isDefinite(h[item.eloRelations])
    THEN Settled(item,
                 item.estimatedElo + KFactor
                    * (1000 - pA(item.estimatedElo, looserItem.estimatedElo)),
                 h)
    ELSE Incubated(item,
                   Push(item,
                        Rel("gt", looserItem.estimatedElo - KFactor
                            * pA(looserItem.estimatedElo, item.estimatedElo)),
                        h))

\* afterLossAgainst (lines 70-91).
afterLossAgainst(item, winnerItem, h) ==
    IF isDefinite(h[item.eloRelations])
    THEN Settled(item,
                 item.estimatedElo - KFactor
                    * pA(item.estimatedElo, winnerItem.estimatedElo),
                 h)
    ELSE Incubated(item,
                   Push(item,
                        Rel("lt", winnerItem.estimatedElo + KFactor
                            * (1000 - pA(winnerItem.estimatedElo,
                                         item.estimatedElo))),
                        h))

----------------------------------------------------------------------------
(* The comparison buttons of one rendered block (src/main.ts 235-325).     *)

\* Lines 301-303 (and 318-320): the copies l and r replace the items at
\* the two indices and the list is sorted again.
Replaced(its, li, ri, l, r) ==
    [items |-> SortDesc([its EXCEPT ![li] = l.item, ![ri] = r.item]),
     heap  |-> r.heap, left |-> l.item, right |-> r.item]

\* chooseLeft.onclick, lines 293-303: the left item wins.  The spread
\* { ...leftItem } copies the fields, the reference to the relations array
\* among them, so the copy handed to updateRating is the record lItem
\* itself; lItem and rItem as opponents are the objects the closure
\* captured, whose fields no statement assigns.  l is the left copy updated.
ChooseLeftThen_ReadsUpdated(its, li, ri, lItem, rItem, l) ==
    Replaced(its, li, ri, l, afterLossAgainst(rItem, l.item, l.heap))

ChooseLeftThen(its, li, ri, lItem, rItem, l) ==
    Replaced(its, li, ri, l, afterLossAgainst(rItem, lItem, l.heap))

ChooseLeft(its, h, li, ri, lItem, rItem) ==
    ChooseLeftThen(its, li, ri, lItem, rItem, afterWinAgainst(lItem, rItem, h))

\* chooseRight.onclick, lines 310-320: the right item wins.
ChooseRightThen(its, li, ri, lItem, rItem, l) ==
    Replaced(its, li, ri, l, afterWinAgainst(rItem, lItem, l.heap))

ChooseRight(its, h, li, ri, lItem, rItem) ==
    ChooseRightThen(its, li, ri, lItem, rItem,
                    afterLossAgainst(lItem, rItem, h))

\* Most lines of a block, and most clicks of one behaviour.
MaxLines == 3

MaxClicks == 2

\* The lines the blocks are made of.
SourceLines ==
    << Line("Alice", << Token("", 650 * Scale, FALSE) >>),
       TitleLine("Bob"),
       BlankLine,
       Line("Dan", << Token("", 640 * Scale + 257, TRUE) >>),
       Line("Hal", << Token("", 622 * Scale, FALSE),
                      Token(">", 610 * Scale, FALSE),
                      Token("", 620 * Scale, FALSE),
                      Token("<", 630 * Scale, FALSE),
                      Token("", 615 * Scale, FALSE) >>),
       Line("Ida", << Token("<", 615 * Scale, FALSE) >>) >>

\* The lines of SourceLines at the positions S, in their order.
Pick(S) ==
    [i \in 1..Cardinality(S) |->
        SourceLines[CHOOSE x \in S : Cardinality({y \in S : y < x}) = i - 1]]

Sources ==
    {Pick(S) : S \in {T \in SUBSET (1..Len(SourceLines)) :
                         Cardinality(T) \in 2..MaxLines}}

Init ==
    /\ source \in Sources
    /\ items = << >> /\ heap = << >> /\ parsed = << >>
    /\ leftIndex = 0 /\ rightIndex = 0
    /\ leftItem = << >> /\ rightItem = << >>
    /\ rendered = FALSE /\ clicks = 0 /\ last = << >>
    /\ relations = << >> /\ result = << >>
    /\ subject = << >> /\ history = << >>
    /\ stage = "" /\ written = << >> /\ reread = << >>

\* The code block processor, lines 235-325: parse the block and, when it
\* holds more than one item, draw two distinct indices (Math.random) and
\* bind the two buttons to the items there.
Rendered(p) ==
    /\ items' = p.items
    /\ heap' = p.heap
    /\ parsed' = DerefAll(p.items, p.heap)
    /\ IF Len(p.items) > 1
       THEN \E l \in 1..Len(p.items), r \in 1..Len(p.items) :
               /\ l # r
               /\ leftIndex' = l /\ rightIndex' = r
               /\ leftItem' = p.items[l] /\ rightItem' = p.items[r]
       ELSE /\ leftIndex' = 0 /\ rightIndex' = 0
            /\ leftItem' = << >> /\ rightItem' = << >>

Render ==
    /\ ~rendered
    /\ Rendered(parseEloItems(source))
    /\ rendered' = TRUE
    /\ last' = << >>
    /\ UNCHANGED << source, clicks, estVars, updVars, textVars >>

\* What a click leaves behind: the new list, and replace() (lines 240-253)
\* putting its serialization in the document or, with no section or no
\* editor, doing nothing.  A replaced block is rendered again by the host.
Clicked(winner, c) ==
    /\ items' = c.items
    /\ heap' = c.heap
    /\ last' = [winner      |-> winner,
                leftBefore  |-> Deref(leftItem, heap),
                rightBefore |-> Deref(rightItem, heap),
                leftAfter   |-> Deref(c.left, c.heap),
                rightAfter  |-> Deref(c.right, c.heap)]
    /\ \E replaced \in BOOLEAN :
          IF replaced
          THEN /\ source' = stringifyEloItems(c.items, c.heap)
               /\ rendered' = FALSE
          ELSE UNCHANGED << source, rendered >>
    /\ clicks' = clicks + 1
    /\ UNCHANGED << leftIndex, rightIndex, leftItem, rightItem, parsed,
                    estVars, updVars, textVars >>

ClickLeft ==
    /\ rendered /\ leftIndex # 0 /\ clicks < MaxClicks
    /\ Clicked("left", ChooseLeft(items, heap, leftIndex, rightIndex,
                                  leftItem, rightItem))

ClickRight ==
    /\ rendered /\ leftIndex # 0 /\ clicks < MaxClicks
    /\ Clicked("right", ChooseRight(items, heap, leftIndex, rightIndex,
                                    leftItem, rightItem))

Next == Render \/ ClickLeft \/ ClickRight

Spec == Init /\ [][Next]_vars

\* The estimate the winner (loser) of a comparison must end with, from the
\* two items as they were when the button was clicked: section 4.4 of the
\* specification, on the estimates both had before the comparison.
WinEstimate(own, opponent) ==
    IF isDefinite(own.eloRelations)
    THEN own.estimatedElo
            + KFactor * (1000 - pA(own.estimatedElo, opponent.estimatedElo))
    ELSE estimateElo(Append(own.eloRelations,
            Rel("gt", opponent.estimatedElo
                        - KFactor * pA(opponent.estimatedElo, own.estimatedElo))))

LossEstimate(own, opponent) ==
    IF isDefinite(own.eloRelations)
    THEN own.estimatedElo
            - KFactor * pA(own.estimatedElo, opponent.estimatedElo)
    ELSE estimateElo(Append(own.eloRelations,
            Rel("lt", opponent.estimatedElo
                        + KFactor * (1000 - pA(opponent.estimatedElo,
                                               own.estimatedElo)))))

(* C7: in one comparison, the winner's and the loser's update are each     *)
(* computed from the estimates both items had before the comparison; the   *)
(* second update never reads the first item's updated estimate.            *)
C7_UpdatesReadOriginalEstimates ==
    last # << >> =>
        IF last.winner = "left"
        THEN /\ last.leftAfter.estimatedElo
                    = WinEstimate(last.leftBefore, last.rightBefore)
             /\ last.rightAfter.estimatedElo
                    = LossEstimate(last.rightBefore, last.leftBefore)
        ELSE /\ last.leftAfter.estimatedElo
                    = LossEstimate(last.leftBefore, last.rightBefore)
             /\ last.rightAfter.estimatedElo
                    = WinEstimate(last.rightBefore, last.leftBefore)

\* A click of the left button has changed both items' estimates.
C7_Witness ==
    /\ last # << >>
    /\ last.winner = "left"
    /\ last.leftAfter.estimatedElo # last.leftBefore.estimatedElo
    /\ last.rightAfter.estimatedElo # last.rightBefore.estimatedElo

(* C4: every item of the list has estimatedElo = estimateElo(its           *)
(* relations) (the default 600 with no relations): no item is observable   *)
(* with a stale estimate.                                                  *)
C4_NoStaleEstimate ==
    \A i \in 1..Len(items) :
        items[i].estimatedElo = estimateElo(heap[items[i].eloRelations])

(* C5: every item of the list, parsed or updated, has at most              *)
(* ITEM_INCUBATION_TIME (4) relations.                                     *)
C5_RelationsBounded ==
    \A i \in 1..Len(items) :
        Len(heap[items[i].eloRelations]) <= ITEM_INCUBATION_TIME

(* C6: updating the copies leaves the original items, which the closure    *)
(* still references, unchanged: title, estimate and relations sequence are *)
(* after the click what they were before it.                               *)
C6_OriginalsUnchanged ==
    last # << >> =>
        /\ Deref(leftItem, heap) = last.leftBefore
        /\ Deref(rightItem, heap) = last.rightBefore

TitleCount(its, t) == Cardinality({j \in 1..Len(its) : its[j].title = t})

(* C10: after any sequence of clicks on the two buttons of one rendered    *)
(* block the list holds the multiset of titles of the parsed list, and     *)
(* only the two compared items have changed.                               *)
C10_NoItemLostOrDuplicated ==
    leftIndex # 0 =>
        /\ Len(items) = Len(parsed)
        /\ \A i \in 1..Len(parsed) :
              /\ TitleCount(items, parsed[i].title)
                    = TitleCount(parsed, parsed[i].title)
              /\ parsed[i].title \notin {leftItem.title, rightItem.title}
                    => \E j \in 1..Len(items) :
                          Deref(items[j], heap) = parsed[i]

----------------------------------------------------------------------------
(* Updater runs: consecutive updates applied in place to one item.         *)

\* Most updates of an updater run.
MaxUpdates == 5

\* The items the runs start from: new, settled and incubating.
StartLines ==
    {TitleLine("Bob"),
     Line("Alice", << Token("", 650 * Scale, FALSE) >>),
     Line("Ida", << Token(">", 610 * Scale, FALSE) >>)}

\* The opponents' estimates: 550 and 664.5 points.
OpponentElos == {550 * Scale, 664 * Scale + 500}

Opponent(elo) ==
    [title |-> "Opponent", estimatedElo |-> elo, eloRelations |-> 0]

Started(p) ==
    /\ subject = p.items[1]
    /\ heap = p.heap
    /\ history = << p.heap[1] >>

UpdInit ==
    /\ \E l \in StartLines : Started(parseEloItems(<< l >>))
    /\ source = << >> /\ items = << >> /\ parsed = << >>
    /\ leftIndex = 0 /\ rightIndex = 0
    /\ leftItem = << >> /\ rightItem = << >>
    /\ rendered = FALSE /\ clicks = 0 /\ last = << >>
    /\ relations = << >> /\ result = << >>
    /\ stage = "" /\ written = << >> /\ reread = << >>

Updated(u) ==
    /\ subject' = u.item
    /\ heap' = u.heap
    /\ history' = Append(history, u.heap[u.item.eloRelations])
    /\ UNCHANGED << blockVars, estVars, textVars >>

Win ==
    /\ Len(history) <= MaxUpdates
    /\ \E elo \in OpponentElos :
          Updated(afterWinAgainst(subject, Opponent(elo), heap))

Loss ==
    /\ Len(history) <= MaxUpdates
    /\ \E elo \in OpponentElos :
          Updated(afterLossAgainst(subject, Opponent(elo), heap))

UpdNext == Win \/ Loss

UpdSpec == UpdInit /\ [][UpdNext]_vars

(* C3: an item that starts with no relation and receives 5 consecutive    *)
(* win/loss updates has exactly one relation, an Equal, after the 5th, and *)
(* at most 4 relations after each of the first 4.                          *)
C3_IncubationCollapse ==
    (history # << >> /\ history[1] = << >>) =>
        \A k \in 2..Len(history) :
            /\ k <= ITEM_INCUBATION_TIME + 1
                  => Len(history[k]) <= ITEM_INCUBATION_TIME
            /\ k = ITEM_INCUBATION_TIME + 2
                  => Len(history[k]) = 1 /\ history[k][1].op = "eq"

\* A new item after its 5th update, wins and losses mixed.
C3_Witness ==
    /\ Len(history) = ITEM_INCUBATION_TIME + 2
    /\ history[1] = << >>
    /\ \E i, j \in 1..ITEM_INCUBATION_TIME :
          /\ history[ITEM_INCUBATION_TIME + 1][i].op = "gt"
          /\ history[ITEM_INCUBATION_TIME + 1][j].op = "lt"

----------------------------------------------------------------------------
(* Text runs: a block is parsed, the list serialized and the serialization *)
(* parsed again.                                                           *)

\* Most lines of the text of a text run.
MaxTextLines == 3

TextLines ==
    << Line("Alice", << Token("", 650 * Scale, FALSE) >>),
       TitleLine("Bob"),
       Line("Carol", << Token("", 645 * Scale + 257, FALSE) >>),
       BlankLine,
       Line("Dan", << Token("", 640 * Scale, TRUE) >>),
       Line("Eve", << Token("", NaN, TRUE), Token("", 650 * Scale, FALSE) >>),
       Line("Fay", << >>),
       Line("Gus", << Token(">", 640 * Scale, FALSE),
                      Token("<", 660 * Scale, FALSE),
                      Token(">", 645 * Scale + 999, FALSE),
                      Token("<", 655 * Scale + 500, FALSE) >>) >>

PickText(S) ==
    [i \in 1..Cardinality(S) |->
        TextLines[CHOOSE x \in S : Cardinality({y \in S : y < x}) = i - 1]]

Texts ==
    {PickText(S) : S \in {T \in SUBSET (1..Len(TextLines)) :
                             Cardinality(T) \in 1..MaxTextLines}}

TextInit ==
    /\ source \in Texts
    /\ stage = "text"
    /\ items = << >> /\ heap = << >> /\ parsed = << >>
    /\ written = << >> /\ reread = << >>
    /\ leftIndex = 0 /\ rightIndex = 0
    /\ leftItem = << >> /\ rightItem = << >>
    /\ rendered = FALSE /\ clicks = 0 /\ last = << >>
    /\ relations = << >> /\ result = << >>
    /\ subject = << >> /\ history = << >>

Parsed(p) ==
    /\ items' = p.items
    /\ heap' = p.heap
    /\ parsed' = DerefAll(p.items, p.heap)

\* parseEloItems(source)
Parse ==
    /\ stage = "text"
    /\ Parsed(parseEloItems(source))
    /\ stage' = "parsed"
    /\ UNCHANGED << source, leftIndex, rightIndex, leftItem, rightItem,
                    rendered, clicks, last, estVars, updVars, written,
                    reread >>

\* stringifyEloItems(items)
Serialize ==
    /\ stage = "parsed"
    /\ written' = stringifyEloItems(items, heap)
    /\ stage' = "written"
    /\ UNCHANGED << blockVars, heap, estVars, updVars, reread >>

\* parseEloItems of the serialization
Reparse ==
    /\ stage = "written"
    /\ reread' = ByValue(parseEloItems(written))
    /\ stage' = "reread"
    /\ UNCHANGED << blockVars, heap, estVars, updVars, written >>

TextNext == Parse \/ Serialize \/ Reparse

TextSpec == TextInit /\ [][TextNext]_vars

(* C8: parsing the serialization of a parsed list yields an equivalent    *)
(* list: the same titles, the same estimates within the 2-decimal          *)
(* truncation, and no Unparseable relation left.                           *)
C8_RoundTripEquivalent ==
    stage = "reread" =>
        /\ Len(reread) = Len(parsed)
        /\ \A i \in 1..Len(parsed) :
              \E j \in 1..Len(reread) :
                  /\ reread[j].title = parsed[i].title
                  /\ Abs(reread[j].estimatedElo - parsed[i].estimatedElo)
                        < Scale \div 100
        /\ \A j \in 1..Len(reread) :
              \A k \in 1..Len(reread[j].eloRelations) :
                  reread[j].eloRelations[k].op # "nop"

----------------------------------------------------------------------------
(* Estimator runs: estimateElo applied to every relation sequence of a     *)
(* bounded set.                                                            *)

\* Longest relation sequence of an estimator run.
MaxRels == 3

\* Relation values of the estimator runs: 10, 12.5 and 20 points.
EstValues == {10 * Scale, 12 * Scale + 500, 20 * Scale}

EstRelations ==
    {Rel(op, v) : op \in {"eq", "lt", "gt"}, v \in EstValues}
        \cup {Rel("nop", NaN)}

EstInputs == UNION {[1..n -> EstRelations] : n \in 0..MaxRels}

EstInit ==
    /\ relations \in EstInputs
    /\ result = << >>
    /\ source = << >> /\ items = << >> /\ heap = << >>
    /\ leftIndex = 0 /\ rightIndex = 0
    /\ leftItem = << >> /\ rightItem = << >>
    /\ rendered = FALSE /\ clicks = 0 /\ last = << >>
    /\ parsed = << >> /\ subject = << >> /\ history = << >>
    /\ stage = "" /\ written = << >> /\ reread = << >>

Estimate ==
    /\ result = << >>
    /\ result' = << estimateElo(relations) >>
    /\ UNCHANGED << blockVars, heap, relations, updVars, textVars >>

EstNext == Estimate

EstSpec == EstInit /\ [][EstNext]_vars

\* The relation sequence without its Unparseable entries.
Numeric(rels) == SelectSeq(rels, LAMBDA r : r.op # "nop")

\* The values that lower (raise) the search window as section 4.3 of the
\* specification describes it: the first relation's, and every
\* Equal/LessThan (Equal/GreaterThan) relation's.
LowerValues(rels) ==
    {rels[i].value : i \in {j \in 1..Len(rels) :
        rels[j].op \in {"eq", "lt"} \/ (j = 1 /\ rels[j].op # "nop")}}

UpperValues(rels) ==
    {rels[i].value : i \in {j \in 1..Len(rels) :
        rels[j].op \in {"eq", "gt"} \/ (j = 1 /\ rels[j].op # "nop")}}

SetMin(S) == CHOOSE x \in S : \A y \in S : x <= y

SetMax(S) == CHOOSE x \in S : \A y \in S : x >= y

\* The whole numbers of points in [minBound - 1, maxBound + 1].
WindowIntegers(rels) ==
    {x \in (SetMin(LowerValues(rels)) - Scale)
                ..(SetMax(UpperValues(rels)) + Scale) : x % Scale = 0}

\* Math.round: the nearest whole number of points, halves upwards.
RoundToInt(v) == ((v + Scale \div 2) \div Scale) * Scale

(* C1: for every non-empty relation sequence the returned estimate's total *)
(* squared error is at most that of every integer of the window            *)
(* [minBound - 1, maxBound + 1], minBound and maxBound taken over ALL the  *)
(* Equal/LessThan and Equal/GreaterThan relations.                         *)
C1_EstimateOptimalInWindow ==
    (/\ result # << >>
     /\ relations # << >>
     /\ LowerValues(relations) # {}
     /\ UpperValues(relations) # {})
    => \A x \in WindowIntegers(relations) :
          ~ErrLess(TotalError(relations, x), TotalError(relations, result[1]))

(* C2: Unparseable relations are ignored: the estimate of a sequence is    *)
(* the estimate of the same sequence with its Unparseable entries removed. *)
C2_UnparseableIgnored ==
    result # << >> => result[1] = estimateElo(Numeric(relations))

(* C9: the estimate is an integer, and the estimate of a single equality   *)
(* constraint Equal(v) is v rounded to an integer.                         *)
C9_SingleEqualRounded ==
    result # << >> =>
        /\ result[1] % Scale = 0
        /\ (Len(relations) = 1 /\ relations[1].op = "eq")
              => result[1] = RoundToInt(relations[1].value)

====
